---- MODULE Spec2Model ----
(***************************************************************************)
(* A model of src/src/lib.rs: Brain<T>, a map from keys to Engram(value,   *)
(* insertion time) behind a parking_lot RwLock, with a fixed retention and *)
(* an explicit expiry sweep (forget), and MemorySubstitute, a view that    *)
(* substitutes the requested key through a fixed rename table before       *)
(* delegating to the Brain.                                                *)
(*                                                                         *)
(* One action is one atomic step of an operation run by a thread: the call *)
(* (with what the code evaluates before it asks for the lock), the lock    *)
(* acquisition, each part of the critical section, the drop of the guard,  *)
(* the return.  OffsetDateTime::now_utc() is a read of the variable clock, *)
(* which only moves forward.  T is i32, as in the tests.                   *)
(*                                                                         *)
(* Spec: one caller uses both facades in any order.                        *)
(* SpecThreads: spawned threads memoize distinct keys concurrently while   *)
(* the spawning thread retrieves.                                          *)
(* SpecSameKey: spawned threads memoize one key concurrently.              *)
(* SpecSweep: the spawning thread sweeps while spawned threads memoize.    *)
(* SpecShared: spawned threads call every operation of the Brain.          *)
(* FairCalls: the same calls under a fair scheduler and a fair lock.       *)
(* SpecClone: one thread uses the Brain, another a clone of it.            *)
(***************************************************************************)
EXTENDS Integers, FiniteSets, Sequences, TLC

\* ------------------------------------------------------------------ bounds
NumThreads == 2
MaxTime == 2
NumValues == 1
MaxRetention == 1

\* The thread that builds the store, and the threads it spawns.
Main == 0
Workers == 1..NumThreads
Threads == {Main} \cup Workers
Times == 0..MaxTime
Retentions == (0 - 1)..MaxRetention
Keys == {"a", "b", "c"}

\* ------------------------------------------------------------ value types
\* T::default() of the value type of the tests (i32).
Default == 0
Values == Default..NumValues

\* Option<T>, T and () as returned to the caller.
None == <<"None">>
Some(v) == <<"Some", v>>
Plain(v) == <<"T", v>>
Unit == <<"()">>
NoResult == <<>>

\* struct Engram<T>(T, OffsetDateTime): field 1 the value, field 2 the stamp.
Engram(value, stamp) == <<value, stamp>>
NoEngram == <<>>

\* HashMap<String, Engram<T>>::default()
EmptyMap == [k \in {} |-> NoEngram]

\* The rename tables a MemorySubstitute is built over in this model: none,
\* one alias, a chain a -> b -> c, and a cycle a -> b -> a.
AliasMaps ==
    { [k \in {} |-> ""],
      [k \in {"a"} |-> "b"],
      [k \in {"a", "b"} |-> IF k = "a" THEN "b" ELSE "c"],
      [k \in {"a", "b"} |-> IF k = "a" THEN "b" ELSE "a"] }

NoThread == 0 - 1
NoNow == 0 - 1

\* The allocation Arc::new makes in Brain::new (memory: Default::default()).
TheArc == 1
NoBrain == <<>>

VARIABLES
    memory,     \* Brain.memory: the HashMap, a function on the present keys
    retention,  \* Brain.retention
    map,        \* MemorySubstitute.map
    clock,      \* the wall clock OffsetDateTime::now_utc() reads
    writer,     \* the RwLock: the thread holding it exclusively, or NoThread
    readers,    \* the RwLock: the threads holding it shared
    parked,     \* the RwLock: the writer that has claimed it and is parked
                \* until the readers have left (a set of at most one thread)
    clone,      \* the handle Brain::clone() made, NoBrain before
    pc,         \* each thread's position
    call,       \* each thread's running call: operation, facade, keys, value
    now,        \* forget's local `now`
    vec,        \* forget's local `vec`
    old,        \* memoize: what HashMap::insert returned (the entry replaced)
    result,     \* what the call returns
    lastMemo,   \* history: the engram of the most recent memoize to each key,
                \* NoEngram before the first and once a forget removed the key
    lastLocker  \* history: the thread that took the write lock last

vars == <<memory, retention, map, clone, clock, writer, readers, parked, pc,
          call, now, vec, old, result, lastMemo, lastLocker>>

NoCall == [op |-> "none", via |-> "none", req |-> "", key |-> "", value |-> Default]

\* ------------------------------------------------------- pure operations
\* Mutant of Insert: an existing entry keeps its stamp (its age is not reset).
Insert_keepStamp(m, k, e) ==
    [x \in DOMAIN m \cup {k} |->
        IF x = k THEN (IF k \in DOMAIN m THEN Engram(e[1], m[k][2]) ELSE e) ELSE m[x]]

\* Mutant of Insert: the new entry replaces the whole map.
Insert_clobber(m, k, e) == [x \in {k} |-> e]

\* HashMap::insert: the new map
Insert(m, k, e) == [x \in DOMAIN m \cup {k} |-> IF x = k THEN e ELSE m[x]]

\* HashMap::insert: the entry it replaces
Replaced(m, k) == IF k \in DOMAIN m THEN m[k] ELSE NoEngram

\* HashMap::remove
Remove(m, k) == [x \in DOMAIN m \ {k} |-> m[x]]

\* Mutant of Get: the stamp (field 1 of the tuple struct) instead of the value.
Get_stamp(m, k) == IF k \in DOMAIN m THEN Some(m[k][2]) ELSE None

\* Mutant of Get: expiry applied at read time.
Get_unexpired(m, k) ==
    IF k \in DOMAIN m /\ ~(m[k][2] + retention < clock) THEN Some(m[k][1]) ELSE None

\* self.memory.read().get(key).map(|engram| &engram.0).cloned()
Get(m, k) == IF k \in DOMAIN m THEN Some(m[k][1]) ELSE None

\* Option::unwrap_or(T::default())
UnwrapOrDefault(o) == IF o = None THEN Default ELSE o[2]

\* Mutant of Expired: the boundary counts as expired.
Expired_inclusive(e, r, n) == e[2] + r <= n

\* Mutant of Expired: the retention is left out.
Expired_noRetention(e, r, n) == e[2] < n

\* Mutant of Expired: a negative retention counts by its magnitude.
Expired_magnitude(e, r, n) == e[2] + (IF r < 0 THEN 0 - r ELSE r) < n

\* value.1.add(self.retention) < now
Expired(e, r, n) == e[2] + r < n

\* binding.iter().map(|(key, value)| (key.to_owned(), value.clone())).collect()
Collect(m) == { <<k, m[k]>> : k \in DOMAIN m }

\* Mutant of Sweep: once one collected entry is expired, all of them go.
Sweep_clear(binding, v, r, n) ==
    IF \E p \in v : p[2][2] + r < n
    THEN [x \in DOMAIN binding \ {p[1] : p \in v} |-> binding[x]]
    ELSE binding

\* Mutant of Sweep: expiry as of the clock at removal time, not as of `now`.
Sweep_clockNow(binding, v, r, n) ==
    [x \in DOMAIN binding \ {p[1] : p \in {q \in v : q[2][2] + r < clock}} |->
        binding[x]]

\* vec.iter().for_each(|(key, value)| if expired { binding.remove(key) })
RECURSIVE Sweep(_, _, _, _)
Sweep(binding, v, r, n) ==
    IF v = {} THEN binding
    ELSE LET p == CHOOSE x \in v : TRUE
         IN  Sweep(IF Expired(p[2], r, n) THEN Remove(binding, p[1]) ELSE binding,
                   v \ {p}, r, n)

\* Mutant of Resolve: no substitution.
Resolve_identity(m, k) == k

\* Mutant of Resolve: the substitute is substituted again.
Resolve_chained(m, k) ==
    IF k \in DOMAIN m THEN (IF m[k] \in DOMAIN m THEN m[m[k]] ELSE m[k]) ELSE k

\* Mutant of Resolve: a key the store holds is not substituted.
Resolve_unlessStored(m, k) ==
    IF k \in DOMAIN memory THEN k ELSE IF k \in DOMAIN m THEN m[k] ELSE k

\* self.map.get(key).unwrap_or(&key.to_string())
Resolve(m, k) == IF k \in DOMAIN m THEN m[k] ELSE k

\* ------------------------------------------------------------------- Init
\* Brain::new(retention), MemorySubstitute::new(&memory, &map)
Init ==
    /\ memory = EmptyMap
    /\ retention \in Retentions
    /\ map \in AliasMaps
    /\ clock = 0
    /\ clone = NoBrain
    /\ writer = NoThread
    /\ readers = {}
    /\ parked = {}
    /\ lastLocker = NoThread
    /\ pc = [t \in Threads |-> "idle"]
    /\ call = [t \in Threads |-> NoCall]
    /\ now = [t \in Threads |-> NoNow]
    /\ vec = [t \in Threads |-> {}]
    /\ old = [t \in Threads |-> NoEngram]
    /\ result = [t \in Threads |-> NoResult]
    /\ lastMemo = [k \in Keys |-> NoEngram]

\* ------------------------------------------------------------------ calls
\* A call enters an operation: what it fixes before asking for the lock.
Enter(t, op, via, req, key, value, at, n) ==
    /\ pc[t] = "idle"
    /\ pc' = [pc EXCEPT ![t] = at]
    /\ call' = [call EXCEPT ![t] = [op |-> op, via |-> via, req |-> req,
                                     key |-> key, value |-> value]]
    /\ now' = [now EXCEPT ![t] = n]
    /\ UNCHANGED <<memory, retention, map, clone, clock, writer, readers,
                   parked, lastLocker, vec, old, result, lastMemo>>

Brain_memoize(t, key, value) ==
    Enter(t, "memoize", "Brain", key, key, value, "memoize_write", NoNow)

Brain_retrieve(t, key) ==
    Enter(t, "retrieve", "Brain", key, key, Default, "retrieve_read", NoNow)

Brain_retrieve_or_default(t, key) ==
    Enter(t, "retrieve_or_default", "Brain", key, key, Default, "retrieve_read", NoNow)

\* let now = OffsetDateTime::now_utc(); comes before self.memory.write()
Brain_forget(t) ==
    Enter(t, "forget", "Brain", "", "", Default, "forget_write", clock)

MemorySubstitute_memoize(t, key, value) ==
    Enter(t, "memoize", "MemorySubstitute", key, Resolve(map, key), value,
          "memoize_write", NoNow)

MemorySubstitute_retrieve(t, key) ==
    Enter(t, "retrieve", "MemorySubstitute", key, Resolve(map, key), Default,
          "retrieve_read", NoNow)

MemorySubstitute_retrieve_or_default(t, key) ==
    Enter(t, "retrieve_or_default", "MemorySubstitute", key, Resolve(map, key),
          Default, "retrieve_read", NoNow)

\* Mutant of MemorySubstitute_forget: it returns without forgetting.
MemorySubstitute_forget_nothing(t) ==
    Enter(t, "forget", "MemorySubstitute", "", "", Default, "done", clock)

MemorySubstitute_forget(t) ==
    Enter(t, "forget", "MemorySubstitute", "", "", Default, "forget_write", clock)

\* The handle Brain::new returned.
Original == [memory |-> TheArc, retention |-> retention]

\* Mutant of Brain_clone: the clone gets an allocation of its own.
Brain_clone_deep ==
    /\ clone = NoBrain
    /\ clone' = [memory |-> Original.memory + 1, retention |-> Original.retention]
    /\ UNCHANGED <<memory, retention, map, clock, writer, readers, parked,
                   lastLocker, pc, call, now, vec, old, result, lastMemo>>

\* #[derive(Clone)]: each field is cloned; Arc::clone gives a pointer to the
\* same allocation, Duration is copied.
Brain_clone ==
    /\ clone = NoBrain
    /\ clone' = [memory |-> Original.memory, retention |-> Original.retention]
    /\ UNCHANGED <<memory, retention, map, clock, writer, readers, parked,
                   lastLocker, pc, call, now, vec, old, result, lastMemo>>

\* A call through the clone runs the steps of this model, on this map, this
\* lock and this retention, when the clone's fields are those of the
\* original.
OnClone ==
    /\ clone # NoBrain
    /\ clone.memory = TheArc
    /\ clone.retention = retention

Clone_memoize(t, key, value) ==
    /\ OnClone
    /\ Enter(t, "memoize", "Clone", key, key, value, "memoize_write", NoNow)

Clone_retrieve(t, key) ==
    /\ OnClone
    /\ Enter(t, "retrieve", "Clone", key, key, Default, "retrieve_read", NoNow)

Clone_forget(t) ==
    /\ OnClone
    /\ Enter(t, "forget", "Clone", "", "", Default, "forget_write", clock)

\* ------------------------------------------------------------- the RwLock
\* Mutant of LockExclusive: granted although readers hold the lock.
LockExclusive_amongReaders(t) ==
    /\ writer = NoThread
    /\ writer' = t
    /\ parked' = parked \ {t}
    /\ lastLocker' = t
    /\ UNCHANGED readers

\* RwLock::write() returns: exclusive, granted when nobody holds the lock and
\* no other writer has claimed it.
LockExclusive(t) ==
    /\ writer = NoThread
    /\ readers = {}
    /\ parked \subseteq {t}
    /\ writer' = t
    /\ parked' = parked \ {t}
    /\ lastLocker' = t
    /\ UNCHANGED readers

\* RwLock::write() finds readers inside: the writer claims the lock, which
\* keeps new readers out, and is parked until the readers have left.
Park(t) ==
    /\ pc[t] \in {"memoize_write", "forget_write"}
    /\ writer = NoThread
    /\ readers # {}
    /\ parked = {}
    /\ parked' = {t}
    /\ UNCHANGED <<memory, retention, map, clone, clock, writer, readers,
                   lastLocker, pc, call, now, vec, old, result, lastMemo>>

\* RwLock::read(): shared, granted when no writer holds or has claimed the
\* lock.
LockShared(t) ==
    /\ writer = NoThread
    /\ parked = {}
    /\ readers' = readers \cup {t}
    /\ UNCHANGED <<writer, parked, lastLocker>>

\* drop(RwLockWriteGuard)
UnlockExclusive(t) ==
    /\ writer' = IF writer = t THEN NoThread ELSE writer
    /\ UNCHANGED <<readers, parked, lastLocker>>

\* drop(RwLockReadGuard)
UnlockShared(t) ==
    /\ readers' = readers \ {t}
    /\ UNCHANGED <<writer, parked, lastLocker>>

\* ------------------------------------------------------------------ steps
\* memoize: self.memory.write()
MemoizeWrite(t) ==
    /\ pc[t] = "memoize_write"
    /\ LockExclusive(t)
    /\ pc' = [pc EXCEPT ![t] = "memoize_insert"]
    /\ UNCHANGED <<memory, retention, map, clone, clock, call, now, vec, old,
                   result, lastMemo>>

\* Mutant of MemoizeInsert: an existing entry is kept (entry().or_insert()).
MemoizeInsert_ifAbsent(t) ==
    /\ pc[t] = "memoize_insert"
    /\ memory' = IF call[t].key \in DOMAIN memory
                 THEN memory
                 ELSE Insert(memory, call[t].key, Engram(call[t].value, clock))
    /\ old' = [old EXCEPT ![t] = Replaced(memory, call[t].key)]
    /\ lastMemo' = [lastMemo EXCEPT ![call[t].key] = Engram(call[t].value, clock)]
    /\ pc' = [pc EXCEPT ![t] = "memoize_drop"]
    /\ UNCHANGED <<retention, map, clone, clock, writer, readers, parked,
                   lastLocker, call, now, vec, result>>

\* memoize: .insert(key.to_string(), Engram(value, OffsetDateTime::now_utc()))
MemoizeInsert(t) ==
    /\ pc[t] = "memoize_insert"
    /\ memory' = Insert(memory, call[t].key, Engram(call[t].value, clock))
    /\ old' = [old EXCEPT ![t] = Replaced(memory, call[t].key)]
    /\ lastMemo' = [lastMemo EXCEPT ![call[t].key] = Engram(call[t].value, clock)]
    /\ pc' = [pc EXCEPT ![t] = "memoize_drop"]
    /\ UNCHANGED <<retention, map, clone, clock, writer, readers, parked,
                   lastLocker, call, now, vec, result>>

\* memoize: the end of the statement drops what insert returned and the guard.
MemoizeDrop(t) ==
    /\ pc[t] = "memoize_drop"
    /\ UnlockExclusive(t)
    /\ old' = [old EXCEPT ![t] = NoEngram]
    /\ result' = [result EXCEPT ![t] = Unit]
    /\ pc' = [pc EXCEPT ![t] = "done"]
    /\ UNCHANGED <<memory, retention, map, clone, clock, call, now, vec,
                   lastMemo>>

\* forget: let mut binding = self.memory.write();
ForgetWrite(t) ==
    /\ pc[t] = "forget_write"
    /\ LockExclusive(t)
    /\ pc' = [pc EXCEPT ![t] = "forget_collect"]
    /\ UNCHANGED <<memory, retention, map, clone, clock, call, now, vec, old,
                   result, lastMemo>>

\* forget: let vec = binding.iter().map(..).collect::<Vec<_>>();
ForgetCollect(t) ==
    /\ pc[t] = "forget_collect"
    /\ vec' = [vec EXCEPT ![t] = Collect(memory)]
    /\ pc' = [pc EXCEPT ![t] = "forget_remove"]
    /\ UNCHANGED <<memory, retention, map, clone, clock, writer, readers,
                   parked, lastLocker, call, now, old, result, lastMemo>>

\* Mutant of ForgetRemove: a sweep removes one expired entry and stops.
ForgetRemove_oneOnly(t) ==
    /\ pc[t] = "forget_remove"
    /\ memory' = LET e == {p \in vec[t] : p[2][2] + retention < now[t]}
                 IN  IF e = {} THEN memory
                     ELSE Remove(memory, (CHOOSE p \in e : TRUE)[1])
    /\ lastMemo' = [k \in Keys |->
                      IF k \in DOMAIN memory /\ k \notin DOMAIN memory'
                      THEN NoEngram ELSE lastMemo[k]]
    /\ pc' = [pc EXCEPT ![t] = "forget_drop"]
    /\ UNCHANGED <<retention, map, clone, clock, writer, readers, parked,
                   lastLocker, call, now, vec, old, result>>

\* Mutant of ForgetRemove: the removals ask for the write lock again.
ForgetRemove_relock(t) ==
    /\ pc[t] = "forget_remove"
    /\ LockExclusive(t)
    /\ memory' = Sweep(memory, vec[t], retention, now[t])
    /\ lastMemo' = [k \in Keys |->
                      IF k \in DOMAIN memory /\ k \notin DOMAIN memory'
                      THEN NoEngram ELSE lastMemo[k]]
    /\ pc' = [pc EXCEPT ![t] = "forget_drop"]
    /\ UNCHANGED <<retention, map, clone, clock, call, now, vec, old, result>>

\* forget: vec.iter().for_each(|(key, value)| { if .. { binding.remove(..) } });
ForgetRemove(t) ==
    /\ pc[t] = "forget_remove"
    /\ memory' = Sweep(memory, vec[t], retention, now[t])
    /\ lastMemo' = [k \in Keys |->
                      IF k \in DOMAIN memory /\ k \notin DOMAIN memory'
                      THEN NoEngram ELSE lastMemo[k]]
    /\ pc' = [pc EXCEPT ![t] = "forget_drop"]
    /\ UNCHANGED <<retention, map, clone, clock, writer, readers, parked,
                   lastLocker, call, now, vec, old, result>>

\* forget: the end of the function drops vec and binding (the guard).
ForgetDrop(t) ==
    /\ pc[t] = "forget_drop"
    /\ vec' = [vec EXCEPT ![t] = {}]
    /\ UnlockExclusive(t)
    /\ result' = [result EXCEPT ![t] = Unit]
    /\ pc' = [pc EXCEPT ![t] = "done"]
    /\ UNCHANGED <<memory, retention, map, clone, clock, call, now, old,
                   lastMemo>>

\* retrieve: self.memory.read()
RetrieveRead(t) ==
    /\ pc[t] = "retrieve_read"
    /\ LockShared(t)
    /\ pc' = [pc EXCEPT ![t] = "retrieve_get"]
    /\ UNCHANGED <<memory, retention, map, clone, clock, call, now, vec, old,
                   result, lastMemo>>

\* Mutant of RetrieveGet: retrieve_or_default stores the default it returns.
RetrieveGet_orInsert(t) ==
    /\ pc[t] = "retrieve_get"
    /\ result' = [result EXCEPT ![t] = Get(memory, call[t].key)]
    /\ memory' = IF call[t].op = "retrieve_or_default" /\ call[t].key \notin DOMAIN memory
                 THEN Insert(memory, call[t].key, Engram(Default, clock))
                 ELSE memory
    /\ pc' = [pc EXCEPT ![t] = "retrieve_drop"]
    /\ UNCHANGED <<retention, map, clone, clock, writer, readers, parked,
                   lastLocker, call, now, vec, old, lastMemo>>

\* retrieve: .get(key).map(|engram| &engram.0).cloned()
RetrieveGet(t) ==
    /\ pc[t] = "retrieve_get"
    /\ result' = [result EXCEPT ![t] = Get(memory, call[t].key)]
    /\ pc' = [pc EXCEPT ![t] = "retrieve_drop"]
    /\ UNCHANGED <<memory, retention, map, clone, clock, writer, readers,
                   parked, lastLocker, call, now, vec, old, lastMemo>>

\* retrieve: the end of the statement drops the guard;
\* retrieve_or_default: self.retrieve(key).unwrap_or(T::default())
RetrieveDrop(t) ==
    /\ pc[t] = "retrieve_drop"
    /\ UnlockShared(t)
    /\ result' = [result EXCEPT ![t] =
                    IF call[t].op = "retrieve_or_default"
                    THEN Plain(UnwrapOrDefault(result[t]))
                    ELSE result[t]]
    /\ pc' = [pc EXCEPT ![t] = "done"]
    /\ UNCHANGED <<memory, retention, map, clone, clock, call, now, vec, old,
                   lastMemo>>

\* The call returns to its caller, which takes the result.
Return(t) ==
    /\ pc[t] = "done"
    /\ pc' = [pc EXCEPT ![t] = "idle"]
    /\ call' = [call EXCEPT ![t] = NoCall]
    /\ now' = [now EXCEPT ![t] = NoNow]
    /\ result' = [result EXCEPT ![t] = NoResult]
    /\ UNCHANGED <<memory, retention, map, clone, clock, writer, readers,
                   parked, lastLocker, vec, old, lastMemo>>

\* Time passes.
Tick ==
    /\ clock < MaxTime
    /\ clock' = clock + 1
    /\ UNCHANGED <<memory, retention, map, clone, writer, readers, parked,
                   lastLocker, pc, call, now, vec, old, result, lastMemo>>

\* ---------------------------------------------------------- specifications
\* One caller, the thread that built the store, uses both facades in any
\* order while time passes.
Next ==
    \/ Tick
    \/ \E k \in Keys, v \in Values : Brain_memoize(Main, k, v)
    \/ \E k \in Keys : Brain_retrieve(Main, k)
    \/ \E k \in Keys : Brain_retrieve_or_default(Main, k)
    \/ Brain_forget(Main)
    \/ \E k \in Keys, v \in Values : MemorySubstitute_memoize(Main, k, v)
    \/ \E k \in Keys : MemorySubstitute_retrieve(Main, k)
    \/ \E k \in Keys : MemorySubstitute_retrieve_or_default(Main, k)
    \/ MemorySubstitute_forget(Main)
    \/ MemoizeWrite(Main)
    \/ MemoizeInsert(Main)
    \/ MemoizeDrop(Main)
    \/ ForgetWrite(Main)
    \/ ForgetCollect(Main)
    \/ ForgetRemove(Main)
    \/ ForgetDrop(Main)
    \/ RetrieveRead(Main)
    \/ RetrieveGet(Main)
    \/ RetrieveDrop(Main)
    \/ Return(Main)

Spec == Init /\ [][Next]_vars

\* Each spawned thread calls memoize once, with a key no other thread uses,
\* and is then joined; the spawning thread retrieves at any time.
Joined == \A w \in Workers : pc[w] = "done"

Spawn_memoize(w, key, value) ==
    /\ \A u \in Workers \ {w} : call[u].key # key
    /\ Brain_memoize(w, key, value)

NextThreads ==
    \/ Tick
    \/ \E w \in Workers :
        \/ \E k \in Keys, v \in Values : Spawn_memoize(w, k, v)
        \/ MemoizeWrite(w)
        \/ MemoizeInsert(w)
        \/ MemoizeDrop(w)
    \/ \E k \in Keys : Brain_retrieve(Main, k)
    \/ RetrieveRead(Main)
    \/ RetrieveGet(Main)
    \/ RetrieveDrop(Main)
    \/ Return(Main)

\* The scenario uses the store alone: no rename table, one retention.
InitThreads ==
    /\ Init
    /\ DOMAIN map = {}
    /\ retention = MaxRetention

SpecThreads == InitThreads /\ [][NextThreads]_vars

\* The spawned threads memoize one and the same key, each of them again and
\* again, with values of their choice.
HotKey == "a"

NextSameKey ==
    \/ Tick
    \/ \E w \in Workers :
        \/ \E v \in Values : Brain_memoize(w, HotKey, v)
        \/ MemoizeWrite(w)
        \/ MemoizeInsert(w)
        \/ MemoizeDrop(w)
        \/ Return(w)

SpecSameKey == InitThreads /\ [][NextSameKey]_vars

\* The spawned threads use one store freely, each calling any operation of
\* the Brain on one key, again and again.
Step(t) ==
    \/ MemoizeInsert(t)
    \/ MemoizeDrop(t)
    \/ ForgetCollect(t)
    \/ ForgetRemove(t)
    \/ ForgetDrop(t)
    \/ RetrieveGet(t)
    \/ RetrieveDrop(t)

NextShared ==
    \/ Tick
    \/ \E w \in Workers :
        \/ \E v \in Values : Brain_memoize(w, HotKey, v)
        \/ Brain_retrieve(w, HotKey)
        \/ Brain_retrieve_or_default(w, HotKey)
        \/ Brain_forget(w)
        \/ MemoizeWrite(w)
        \/ ForgetWrite(w)
        \/ Park(w)
        \/ RetrieveRead(w)
        \/ Step(w)
        \/ Return(w)

SpecShared == InitThreads /\ [][NextShared]_vars

\* Termination does not depend on the time or on the values: the spawned
\* threads call any operation of the Brain on one key, again and again, at
\* one clock reading, under a retention that lets every forget remove what
\* it finds.
NextCalls ==
    \E w \in Workers :
        \/ Brain_memoize(w, HotKey, NumValues)
        \/ Brain_retrieve(w, HotKey)
        \/ Brain_retrieve_or_default(w, HotKey)
        \/ Brain_forget(w)
        \/ MemoizeWrite(w)
        \/ ForgetWrite(w)
        \/ Park(w)
        \/ RetrieveRead(w)
        \/ Step(w)
        \/ Return(w)

InitCalls ==
    /\ Init
    /\ DOMAIN map = {}
    /\ retention = 0 - 1

\* A fair scheduler and a fair lock: a thread that can take a step takes it,
\* and a thread that asks for the lock gets it if the lock is free for it
\* again and again.  Callers need not call.
Fairness ==
    \A w \in Workers :
        /\ WF_vars(Step(w) \/ Park(w))
        /\ SF_vars(MemoizeWrite(w) \/ ForgetWrite(w) \/ RetrieveRead(w))

FairCalls == InitCalls /\ [][NextCalls]_vars /\ Fairness

\* The spawning thread clones the Brain and moves the clone to a spawned
\* thread; each of the two memoizes, retrieves and forgets through its own
\* handle, again and again.
CloneUser == CHOOSE w \in Workers : TRUE

NextClone ==
    \/ Tick
    \/ Brain_clone
    \/ \E v \in Values : Brain_memoize(Main, HotKey, v)
    \/ Brain_retrieve(Main, HotKey)
    \/ Brain_forget(Main)
    \/ \E v \in Values : Clone_memoize(CloneUser, HotKey, v)
    \/ Clone_retrieve(CloneUser, HotKey)
    \/ Clone_forget(CloneUser)
    \/ \E t \in {Main, CloneUser} :
        \/ MemoizeWrite(t)
        \/ ForgetWrite(t)
        \/ RetrieveRead(t)
        \/ Step(t)
        \/ Return(t)

SpecClone == InitThreads /\ [][NextClone]_vars

\* The spawning thread sweeps again and again while each spawned thread
\* memoizes once, any key (the value plays no part in a sweep), under any
\* retention.
NextSweep ==
    \/ Tick
    \/ \E w \in Workers :
        \/ \E k \in Keys : Brain_memoize(w, k, NumValues)
        \/ MemoizeWrite(w)
        \/ MemoizeInsert(w)
        \/ MemoizeDrop(w)
    \/ Brain_forget(Main)
    \/ ForgetWrite(Main)
    \/ ForgetCollect(Main)
    \/ ForgetRemove(Main)
    \/ ForgetDrop(Main)
    \/ Return(Main)

InitSweep ==
    /\ Init
    /\ DOMAIN map = {}

SpecSweep == InitSweep /\ [][NextSweep]_vars

\* ------------------------------------------------------------------ claims
\* The entry of key k in map m, NoEngram when there is none.
EntryOf(m, k) == IF k \in DOMAIN m THEN m[k] ELSE NoEngram

\* How far a position is from the return of its call.
Rank(p) ==
    CASE p = "forget_write" -> 4
      [] p \in {"memoize_write", "retrieve_read", "forget_collect"} -> 3
      [] p \in {"memoize_insert", "retrieve_get", "forget_remove"} -> 2
      [] p \in {"memoize_drop", "retrieve_drop", "forget_drop"} -> 1
      [] OTHER -> 0

\* C1: a retrieve of a key whose last memoize(k, v) has not been followed by
\* a forget that removed it returns Some(v), whatever was written to other
\* keys in between.
C1_RoundTrip ==
    \A t \in Threads :
        (/\ pc[t] = "retrieve_drop"
         /\ call[t].op = "retrieve"
         /\ lastMemo[call[t].key] # NoEngram)
        => result[t] = Some(lastMemo[call[t].key][1])

\* C1 witness: retrieve has returned Some(1) for a key while another key,
\* written later, is in the store.
C1_Witness ==
    /\ pc[Main] = "retrieve_drop"
    /\ call[Main].op = "retrieve"
    /\ call[Main].via = "Brain"
    /\ result[Main] = Some(1)
    /\ \E k \in DOMAIN memory \ {call[Main].key} :
          memory[k][2] > lastMemo[call[Main].key][2]

\* C2: forget sweeps with the one clock reading it took at its start: when
\* its loop has run, exactly the collected entries with
\* inserted_at + retention < now are gone, and every other collected entry,
\* one with inserted_at + retention = now included, is there unchanged.
C2_ForgetExact ==
    \A t \in Threads :
        /\ pc[t] = "forget_remove" => vec[t] = { <<k, memory[k]>> : k \in DOMAIN memory }
        /\ pc[t] = "forget_drop" =>
              \A p \in vec[t] :
                  IF p[2][2] + retention < now[t]
                  THEN p[1] \notin DOMAIN memory
                  ELSE p[1] \in DOMAIN memory /\ memory[p[1]] = p[2]

\* C2 witness: a sweep whose reading is older than the clock has removed an
\* entry strictly past its deadline and kept one exactly at its deadline.
C2_Witness ==
    /\ pc[Main] = "forget_drop"
    /\ now[Main] < clock
    /\ \E p \in vec[Main], q \in vec[Main] :
          /\ p[2][2] + retention < now[Main]
          /\ p[1] \notin DOMAIN memory
          /\ q[2][2] + retention = now[Main]
          /\ q[1] \in DOMAIN memory

\* C3 as stated: a forget at any time >= t0 + R makes retrieve return None,
\* a forget before t0 + R leaves the entry retrievable.
C3_Original ==
    \A t \in Threads :
        pc[t] = "forget_drop" =>
            \A p \in vec[t] :
                /\ now[t] >= p[2][2] + retention => Get(memory, p[1]) = None
                /\ now[t] < p[2][2] + retention => Get(memory, p[1]) = Some(p[2][1])

\* C3 as amended: a forget at a time > t0 + R makes retrieve return None, a
\* forget at a time <= t0 + R (the deadline itself included) leaves the entry
\* retrievable.
C3_ExpiryBoundary ==
    \A t \in Threads :
        pc[t] = "forget_drop" =>
            \A p \in vec[t] :
                /\ now[t] > p[2][2] + retention => Get(memory, p[1]) = None
                /\ now[t] <= p[2][2] + retention => Get(memory, p[1]) = Some(p[2][1])

\* C3 witness: a forget called exactly at t0 + R, with R > 0, has run and the
\* entry is still retrievable.
C3_Witness ==
    /\ pc[Main] = "forget_drop"
    /\ retention > 0
    /\ \E p \in vec[Main] :
          /\ now[Main] = p[2][2] + retention
          /\ Get(memory, p[1]) = Some(p[2][1])

\* C4: a forget leaves every key whose deadline has not strictly passed in
\* the store with its value and stamp, adds no key and changes no surviving
\* entry.
C4_IndependentEntries ==
    \A t \in Threads :
        pc[t] = "forget_drop" =>
            /\ \A k \in DOMAIN memory : <<k, memory[k]>> \in vec[t]
            /\ \A p \in vec[t] :
                  p[2][2] + retention >= now[t] => EntryOf(memory, p[1]) = p[2]

\* C4 witness: retention 1, a memoized at 0, b at 1, forget at 2: a is gone,
\* b is there with its value.
C4_Witness ==
    /\ pc[Main] = "forget_drop"
    /\ retention = 1
    /\ now[Main] = 2
    /\ <<"a", Engram(1, 0)>> \in vec[Main]
    /\ <<"b", Engram(1, 1)>> \in vec[Main]
    /\ "a" \notin DOMAIN memory
    /\ EntryOf(memory, "b") = Engram(1, 1)

\* C5: every entry in the store is the value and clock reading of the most
\* recent memoize to its key; a memoize over an existing entry leaves the
\* new value retrievable and a sweep at any time when the replaced entry's
\* deadline has passed and the new one's has not keeps the entry.
C5_LastWriteWins ==
    /\ \A k \in DOMAIN memory : memory[k] = lastMemo[k]
    /\ \A t \in Threads :
          pc[t] = "memoize_drop" =>
              /\ lastMemo[call[t].key][1] = call[t].value
              /\ lastMemo[call[t].key][2] <= clock
              /\ Get(memory, call[t].key) = Some(call[t].value)
              /\ \A n \in Times :
                    (/\ old[t] # NoEngram
                     /\ old[t][2] + retention < n
                     /\ EntryOf(memory, call[t].key)[2] + retention >= n)
                    => call[t].key \in
                          DOMAIN Sweep(memory, Collect(memory), retention, n)

\* C5 witness: memoize has replaced an entry by another value with a later
\* stamp, and there is a time at which the replaced entry would have been
\* swept and the new one is not.
C5_Witness ==
    /\ pc[Main] = "memoize_drop"
    /\ old[Main] # NoEngram
    /\ old[Main][1] # call[Main].value
    /\ old[Main][2] < EntryOf(memory, call[Main].key)[2]
    /\ \E n \in Times :
          /\ old[Main][2] + retention < n
          /\ EntryOf(memory, call[Main].key)[2] + retention >= n

\* C6: a key memoized and not removed by a forget since is in the store with
\* the entry of that memoize (only forget removes, nothing else changes an
\* entry); retrieve returns the stored value of a present key whatever its
\* age, and None only for a key never memoized or removed by a forget since.
C6_NoReadTimeExpiry ==
    /\ \A k \in Keys : lastMemo[k] # NoEngram => EntryOf(memory, k) = lastMemo[k]
    /\ \A t \in Threads :
          pc[t] = "retrieve_drop" =>
              /\ call[t].key \in DOMAIN memory =>
                     result[t] = Some(memory[call[t].key][1])
              /\ result[t] = None => lastMemo[call[t].key] = NoEngram

\* C6 witness: retrieve has returned the value of an entry whose deadline
\* passed before the call.
C6_Witness ==
    /\ pc[Main] = "retrieve_drop"
    /\ call[Main].op = "retrieve"
    /\ call[Main].key \in DOMAIN memory
    /\ memory[call[Main].key][2] + retention < clock
    /\ retention >= 0
    /\ result[Main] = Some(memory[call[Main].key][1])

\* C7: a MemorySubstitute memoize, retrieve or retrieve_or_default on key k
\* runs the Brain operation on map[k] when k is in the map and on k
\* otherwise: the write is in the store under that key and the read is the
\* store's entry of that key.
C7_KeyResolution ==
    \A t \in Threads :
        (call[t].via = "MemorySubstitute" /\ call[t].op # "forget") =>
            LET real == IF call[t].req \in DOMAIN map
                        THEN map[call[t].req] ELSE call[t].req
            IN  /\ call[t].key = real
                /\ pc[t] = "memoize_drop" =>
                      /\ EntryOf(memory, real) # NoEngram
                      /\ EntryOf(memory, real)[1] = call[t].value
                /\ pc[t] = "retrieve_drop" =>
                      result[t] = (IF real \in DOMAIN memory
                                   THEN Some(memory[real][1]) ELSE None)
                /\ (pc[t] = "done" /\ call[t].op = "retrieve") =>
                      result[t] = (IF real \in DOMAIN memory
                                   THEN Some(memory[real][1]) ELSE None)
                /\ (pc[t] = "done" /\ call[t].op = "retrieve_or_default") =>
                      result[t] = Plain(IF real \in DOMAIN memory
                                        THEN memory[real][1] ELSE Default)

\* C7 witness: a write through the alias a -> b is in the store under b, and
\* a is not in the store.
C7_Witness ==
    /\ pc[Main] = "memoize_drop"
    /\ call[Main].via = "MemorySubstitute"
    /\ call[Main].req = "a"
    /\ "a" \in DOMAIN map
    /\ map["a"] = "b"
    /\ call[Main].value = 1
    /\ EntryOf(memory, "b")[1] = 1
    /\ "a" \notin DOMAIN memory

\* C8: a MemorySubstitute call on an alias k works on the entry map[k] and no
\* other, also when map[k] is itself an alias: each of its steps leaves every
\* other entry as it was, reads or writes map[k], and brings the call closer
\* to its return.
C8_SingleSubstitution ==
    [][\A t \in Threads :
          (/\ call[t].via = "MemorySubstitute"
           /\ call[t].req \in DOMAIN map
           /\ pc[t] # "done"
           /\ pc'[t] # pc[t])
          => /\ call[t].key = map[call[t].req]
             /\ \A k \in Keys \ {map[call[t].req]} :
                   EntryOf(memory', k) = EntryOf(memory, k)
             /\ pc[t] = "memoize_insert" =>
                   EntryOf(memory', map[call[t].req])[1] = call[t].value
             /\ pc[t] = "retrieve_get" =>
                   result'[t] = (IF map[call[t].req] \in DOMAIN memory
                                 THEN Some(memory[map[call[t].req]][1]) ELSE None)
             /\ Rank(pc'[t]) < Rank(pc[t])]_vars

\* C8 witness: with a -> b and b an alias too, a memoize on a has returned;
\* b holds the value and neither a nor b's own target is in the store.
C8_Witness ==
    /\ pc[Main] = "done"
    /\ call[Main].via = "MemorySubstitute"
    /\ call[Main].op = "memoize"
    /\ call[Main].req = "a"
    /\ "a" \in DOMAIN map
    /\ map["a"] \in DOMAIN map
    /\ DOMAIN memory = {map["a"]}
    /\ map[map["a"]] \notin DOMAIN memory

\* C9: retrieve_or_default returns the stored value of a present key and the
\* default for an absent one, and changes nothing in the store: the key it
\* found absent is absent afterwards.
C9_DefaultFallback ==
    [][\A t \in Threads :
          (call[t].op = "retrieve_or_default" /\ pc'[t] # pc[t])
          => /\ memory' = memory
             /\ pc'[t] = "done" =>
                   IF call[t].key \in DOMAIN memory
                   THEN result'[t] = Plain(memory[call[t].key][1])
                   ELSE /\ result'[t] = Plain(Default)
                        /\ call[t].key \notin DOMAIN memory']_vars

\* C9 witness: retrieve_or_default has returned the default for a key that
\* is not in the store, while another key is.
C9_Witness ==
    /\ pc[Main] = "done"
    /\ call[Main].op = "retrieve_or_default"
    /\ result[Main] = Plain(Default)
    /\ call[Main].key \notin DOMAIN memory
    /\ memory # EmptyMap

\* C10: once every spawned thread has finished its memoize, each on a key of
\* its own and with no forget, every one of these keys is in the store with
\* the value written for it, and a retrieve of it returns Some of that value.
C10_NoLostWrite ==
    Joined =>
        /\ \A w \in Workers :
              /\ EntryOf(memory, call[w].key) # NoEngram
              /\ EntryOf(memory, call[w].key)[1] = call[w].value
        /\ pc[Main] = "retrieve_drop" =>
              \A w \in Workers :
                  call[w].key = call[Main].key => result[Main] = Some(call[w].value)

\* C10 witness: all spawned threads are done, the store holds one key per
\* thread, and retrieve has returned Some(1) for the key written first while
\* another thread was still before its insert.
C10_Witness ==
    /\ Joined
    /\ Cardinality(DOMAIN memory) = NumThreads
    /\ pc[Main] = "retrieve_drop"
    /\ result[Main] = Some(1)
    /\ \E k \in DOMAIN memory : memory[k][2] > memory[call[Main].key][2]

\* C11: when several threads memoize the same key concurrently, every change
\* of the entry is made by the thread holding the write lock and puts there
\* the value of that thread's call together with the clock reading that call
\* took (never one call's value with another's stamp), and as long as the
\* thread that took the write lock last has inserted and not returned, the
\* entry holds its value and the stamp of the most recent memoize; a second
\* memoize of one thread is such a last call too.
C11_LastLockerWins ==
    [][/\ \A k \in Keys :
            EntryOf(memory', k) # EntryOf(memory, k)
            => \E t \in Threads :
                   /\ writer = t
                   /\ lastLocker = t
                   /\ call[t].op = "memoize"
                   /\ call[t].key = k
                   /\ EntryOf(memory', k) = Engram(call[t].value, clock)
       /\ \A t \in Threads :
            (/\ lastLocker' = t
             /\ call'[t].op = "memoize"
             /\ pc'[t] \in {"memoize_drop", "done"})
            => /\ EntryOf(memory', call'[t].key) = lastMemo'[call'[t].key]
               /\ EntryOf(memory', call'[t].key) # NoEngram
               /\ EntryOf(memory', call'[t].key)[1] = call'[t].value
               /\ EntryOf(memory', call'[t].key)[2] <= clock'
      ]_vars

\* C11 witness: a thread holds the write lock having replaced an older entry
\* of another value by its own value and the present clock reading, while
\* another thread waits for the lock to memoize a third pairing to that key.
C11_Witness ==
    \E t \in Workers, u \in Workers :
        /\ t # u
        /\ pc[t] = "memoize_drop"
        /\ lastLocker = t
        /\ pc[u] = "memoize_write"
        /\ call[u].key = call[t].key
        /\ old[t] # NoEngram
        /\ old[t][1] # call[t].value
        /\ old[t][2] < clock
        /\ memory[call[t].key] = Engram(call[t].value, clock)

\* C12: a forget that runs concurrently with memoize calls collects, under
\* the write lock, every entry then in the store (those memoized after it
\* read the clock included), and when it has swept, no entry expired as of
\* its `now` is left in the store, so none that was there from its start on;
\* every collected entry expired as of `now` is gone, every collected entry
\* not expired as of `now` is there unchanged, and nothing else is there.
C12_SweepUnderContention ==
    \A t \in Threads :
        /\ pc[t] = "forget_remove"
           => vec[t] = {<<k, memory[k]>> : k \in DOMAIN memory}
        /\ pc[t] = "forget_drop"
           => /\ \A k \in DOMAIN memory : ~(memory[k][2] + retention < now[t])
              /\ \A p \in vec[t] :
                    IF p[2][2] + retention < now[t]
                    THEN p[1] \notin DOMAIN memory
                    ELSE EntryOf(memory, p[1]) = p[2]
              /\ DOMAIN memory \subseteq {p[1] : p \in vec[t]}

\* C12 witness: the sweep has removed an expired entry and kept an entry that
\* a thread memoized after the sweep read the clock and before it got the
\* lock (its stamp is later than the sweep's `now`).
C12_Witness ==
    /\ pc[Main] = "forget_drop"
    /\ \E p \in vec[Main] :
          /\ p[2][2] > now[Main]
          /\ EntryOf(memory, p[1]) = p[2]
    /\ \E q \in vec[Main] :
          /\ q[2][2] + retention < now[Main]
          /\ q[1] \notin DOMAIN memory

\* The positions inside an exclusive and inside a shared critical section.
InWrite == {"memoize_insert", "memoize_drop",
            "forget_collect", "forget_remove", "forget_drop"}
InRead == {"retrieve_get", "retrieve_drop"}

\* C13: the map changes only in a step of the thread that holds the lock
\* exclusively, with no reader inside; a thread inside memoize's or forget's
\* critical section is the writer and no other thread is inside any critical
\* section; forget is the writer at its scan, at its removals and up to its
\* end, in one critical section; a thread inside a retrieve holds the lock
\* shared and there is no writer.
C13_LockDiscipline ==
    [][/\ memory' # memory
          => \E t \in Threads :
                 /\ writer = t
                 /\ writer' = t
                 /\ readers = {}
                 /\ pc[t] \in {"memoize_insert", "forget_remove"}
       /\ \A t \in Threads :
            /\ pc'[t] \in InWrite
               => /\ writer' = t
                  /\ readers' = {}
                  /\ \A u \in Threads \ {t} : pc'[u] \notin InWrite \cup InRead
            /\ pc'[t] \in InRead
               => /\ t \in readers'
                  /\ writer' = NoThread
            /\ (pc[t] \in {"forget_collect", "forget_remove"} /\ pc'[t] # pc[t])
               => /\ pc'[t] \in {"forget_remove", "forget_drop"}
                  /\ writer' = t
      ]_vars

\* C13 witness: a retrieve and a retrieve_or_default are inside their read
\* sections at the same time.
C13_Witness ==
    \E t \in Threads, u \in Threads :
        /\ t # u
        /\ pc[t] \in InRead
        /\ pc[u] \in InRead
        /\ call[t].op = "retrieve"
        /\ call[u].op = "retrieve_or_default"
        /\ readers = {t, u}

\* C14: under a fair lock every memoize, retrieve, retrieve_or_default and
\* forget call that has started comes to its end, and a thread at the end of
\* its call, or in no call, holds no lock; a forget that asks for the lock
\* does not hold it already.
C14_Termination ==
    /\ \A t \in Threads :
          [](/\ pc[t] \in {"idle", "done"} => (writer # t /\ t \notin readers)
             /\ pc[t] \in {"forget_write", "memoize_write", "retrieve_read"}
                => (writer # t /\ t \notin readers))
    /\ \A t \in Threads :
          (pc[t] \notin {"idle", "done"}) ~> (pc[t] = "done")

\* C14 witness: a forget, the last call to take the write lock, has come to
\* its end and released the lock while another thread waits to write or is
\* inside its read section.
C14_Witness ==
    \E t \in Threads, u \in Threads :
        /\ t # u
        /\ call[t].op = "forget"
        /\ pc[t] = "done"
        /\ writer = NoThread
        /\ lastLocker = t
        /\ pc[u] \in {"memoize_write", "retrieve_get"}

\* C15 as stated: with a zero or negative retention, a forget called at any
\* time after a memoize, the same clock reading included, removes the entry.
C15_Original ==
    \A t \in Threads :
        (pc[t] = "forget_drop" /\ retention <= 0)
        => \A p \in vec[t] : p[1] \notin DOMAIN memory

\* C15: with a negative retention a forget removes every entry memoized
\* before it, also one memoized at the clock reading of the forget; with a
\* zero retention it removes the entries memoized at an earlier clock reading
\* and keeps, unchanged, those memoized at its own clock reading.
C15_NonPositiveRetention ==
    \A t \in Threads :
        (pc[t] = "forget_drop" /\ retention <= 0)
        => \A p \in vec[t] :
               /\ p[2][2] <= now[t]
               /\ IF retention < 0 \/ p[2][2] < now[t]
                  THEN p[1] \notin DOMAIN memory
                  ELSE EntryOf(memory, p[1]) = p[2]

\* C15 witness: under a negative retention a forget has removed an entry
\* memoized at the clock reading the forget took.
C15_Witness ==
    /\ pc[Main] = "forget_drop"
    /\ retention < 0
    /\ \E p \in vec[Main] :
          /\ p[2][2] = now[Main]
          /\ p[1] \notin DOMAIN memory

\* C16: no step changes the rename table; a forget through the
\* MemorySubstitute reads the clock when it is called, comes to its end only
\* through the sweep, and its removal step, like that of a forget called on
\* the Brain, leaves exactly the entries not expired as of that clock
\* reading, whatever the rename table says about their keys.
C16_ForgetPassThrough ==
    [][/\ map' = map
       /\ \A t \in Threads :
            call'[t].op = "forget"
            => /\ (pc[t] = "forget_remove" /\ pc'[t] = "forget_drop")
                  => memory' =
                       [k \in {x \in DOMAIN memory :
                                  ~(memory[x][2] + retention < now[t])} |->
                           memory[k]]
               /\ call'[t].via = "MemorySubstitute"
                  => /\ pc[t] = "idle" => (pc'[t] = "forget_write" /\ now'[t] = clock)
                     /\ pc'[t] = "done" => pc[t] \in {"forget_drop", "done"}
      ]_vars

\* C16 witness: a forget through the MemorySubstitute has removed three
\* expired entries: one under an alias, one under its target, one under a
\* key the rename table does not mention.
C16_Witness ==
    /\ pc[Main] = "forget_drop"
    /\ call[Main].via = "MemorySubstitute"
    /\ DOMAIN map = {"a"}
    /\ map["a"] = "b"
    /\ {p[1] : p \in vec[Main]} = {"a", "b", "c"}
    /\ DOMAIN memory = {}

\* The memoize, retrieve and retrieve_or_default calls made through the
\* MemorySubstitute.
Remapped(c) == c.via = "MemorySubstitute" /\ c.op # "forget"

\* C17 as stated: where the rename table has k -> r with r # k, a call on k
\* through the MemorySubstitute acts on r, and a call on r through it acts on
\* r too, the same entry.
C17_Original ==
    \A t \in Threads :
        Remapped(call[t])
        => /\ (call[t].req \in DOMAIN map /\ map[call[t].req] # call[t].req)
              => call[t].key = map[call[t].req]
           /\ \A k \in DOMAIN map :
                (map[k] = call[t].req /\ k # call[t].req)
                => call[t].key = call[t].req

\* C17: where the rename table has k -> r with r # k, a call on k through
\* the MemorySubstitute acts on r: it leaves the entry of k as it is, and a
\* retrieve returns the value of the entry of r, whatever was written under
\* k; a call on r through it acts on r, the same entry, if the table does
\* not rename r, and acts on the key the table gives for r if it does.
C17_Shadowing ==
    [][\A t \in Threads :
          Remapped(call'[t])
          => LET q == call'[t].req
                 shadowed == q \in DOMAIN map /\ map[q] # q
             IN  /\ shadowed
                    => /\ call'[t].key = map[q]
                       /\ call'[t].key # q
                       /\ EntryOf(memory', q) = EntryOf(memory, q)
                       /\ pc'[t] = "retrieve_drop"
                          => result'[t] =
                               IF map[q] \in DOMAIN memory'
                               THEN Some(memory'[map[q]][1])
                               ELSE None
                 /\ ~shadowed => call'[t].key = q
                 /\ (\E k \in DOMAIN map : map[k] = q /\ k # q)
                    => call'[t].key = IF q \in DOMAIN map THEN map[q] ELSE q
      ]_vars

\* C17 witness: the store holds 1 under the alias a, written directly, and 0
\* under its target b, and a retrieve of a through the MemorySubstitute has
\* got Some(0).
C17_Witness ==
    /\ pc[Main] = "retrieve_drop"
    /\ call[Main].via = "MemorySubstitute"
    /\ call[Main].op = "retrieve"
    /\ call[Main].req = "a"
    /\ "a" \in DOMAIN map
    /\ map["a"] = "b"
    /\ {"a", "b"} \subseteq DOMAIN memory
    /\ memory["a"][1] = 1
    /\ memory["b"][1] = 0
    /\ result[Main] = Some(0)

\* C18: a clone of the Brain points to the allocation of the original and
\* has its retention; whichever handle each uses, a thread inside a write
\* section is the writer and no other thread is inside any critical section;
\* a retrieve that runs after the memoize of another thread, the last call
\* to take the write lock, gets that call's value, and one that runs after
\* the forget of another thread, the last call to take the write lock, gets
\* no entry expired as of that forget's clock reading.
C18_CloneShares ==
    /\ clone # NoBrain
       => (clone.memory = Original.memory /\ clone.retention = Original.retention)
    /\ \A t \in Threads :
          pc[t] \in InWrite
          => /\ writer = t
             /\ \A u \in Threads \ {t} : pc[u] \notin InWrite \cup InRead
    /\ \A t \in Threads, u \in Threads :
          (/\ t # u
           /\ pc[t] = "retrieve_drop"
           /\ lastLocker = u
           /\ pc[u] = "done")
          => /\ (call[u].op = "memoize" /\ call[u].key = call[t].key)
                => result[t] = Some(call[u].value)
             /\ call[u].op = "forget"
                => \/ result[t] = None /\ call[t].key \notin DOMAIN memory
                   \/ /\ call[t].key \in DOMAIN memory
                      /\ result[t] = Some(memory[call[t].key][1])
                      /\ ~(memory[call[t].key][2] + retention < now[u])

\* C18 witness: a retrieve through the original has got the value that the
\* other thread memoized through the clone, replacing the other value that
\* was memoized through the original.
C18_Witness ==
    /\ pc[Main] = "retrieve_drop"
    /\ call[Main].via = "Brain"
    /\ lastLocker = CloneUser
    /\ pc[CloneUser] = "done"
    /\ call[CloneUser].via = "Clone"
    /\ call[CloneUser].op = "memoize"
    /\ call[CloneUser].value = 1
    /\ result[Main] = Some(1)
    /\ lastMemo[HotKey] = memory[HotKey]
    /\ memory[HotKey][2] > 0

\* C19: when forget has swept, every key of the store was there before and
\* has the entry it had; no entry is left that is expired as of the sweep's
\* clock reading, so sweeping the result again at that reading, with no
\* memoize in between, gives the same store; a memoize of a key that is not
\* in the store, be it new or removed by a forget, puts there its value with
\* the clock reading it took, as the most recent memoize of that key.
C19_ForgetShrinks ==
    \A t \in Threads :
        /\ pc[t] = "forget_drop"
           => /\ \A k \in DOMAIN memory : <<k, memory[k]>> \in vec[t]
              /\ \A k \in DOMAIN memory : ~(memory[k][2] + retention < now[t])
              /\ Sweep(memory, Collect(memory), retention, now[t]) = memory
        /\ (pc[t] = "memoize_drop" /\ old[t] = NoEngram)
           => /\ call[t].key \in DOMAIN memory
              /\ memory[call[t].key][1] = call[t].value
              /\ memory[call[t].key][2] <= clock
              /\ memory[call[t].key] = lastMemo[call[t].key]

\* C19 witness: a thread has memoized a key that was not in the store at a
\* later clock reading, and another thread had memoized that key and
\* returned: a forget has removed the key in between.
C19_Witness ==
    \E t \in Workers, u \in Workers :
        /\ t # u
        /\ pc[t] = "memoize_drop"
        /\ old[t] = NoEngram
        /\ pc[u] = "done"
        /\ call[u].key = call[t].key
        /\ memory[call[t].key] = Engram(call[t].value, clock)
        /\ clock > 0
====
